---- MODULE Spec2Model ----
(***************************************************************************)
(* Model of GenerateIcons/generate.py: the start-up code that creates the  *)
(* output directory, and generate_icons, which opens the master image and  *)
(* writes one resized PNG per entry of the size list.                      *)
(*                                                                         *)
(* The file system is part of the state: the output path, the directory's  *)
(* entries and the source file.  A run is one execution of the script; a   *)
(* behaviour holds up to MaxRuns consecutive runs over the same file       *)
(* system.  Python's exceptions are modelled by their class names.         *)
(***************************************************************************)
EXTENDS Integers, Sequences, FiniteSets, TLC

VARIABLES
    pc,             \* position of the script
    run,            \* number of the current run, 1..MaxRuns
    source,         \* what is on disk at the source path
    outDir,         \* what is on disk at the output path
    files,          \* entries of the output directory: name -> content
    diskFullAt,     \* index of the save during which the device fills up (0: never)
    source_path,    \* the argument of generate_icons
    imgOpen,        \* the image opened by the with statement is not closed yet
    idx,            \* position of the for loop in sizes
    resized_img,    \* the local resized_img
    exc,            \* the exception in flight, "none" when there is none
    console,        \* lines printed by the current run
    \* history of the current run, read by the properties only
    raised,         \* the exception raised in this run and the statement raising it
    openCount,      \* successful Image.open calls of this run
    events,         \* resize / save / print steps of this run, in order
    written,        \* sizes whose file this run has modified
    outDirAtStart,  \* outDir when the run started
    filesAtStart,   \* files when the run started
    prev            \* how the previous run ended

vars == <<pc, run, source, outDir, files, diskFullAt, source_path, imgOpen, idx,
          resized_img, exc, console, raised, openCount, events, written,
          outDirAtStart, filesAtStart, prev>>

----------------------------------------------------------------------------
(* Bounds *)

MaxRuns == 2

MaxPreexisting == 2

----------------------------------------------------------------------------
(* Constants of the script *)

source_file == "GenerateIcons/master-icon.png"

output_dir == "public/icons"

sizes == <<72, 96, 128, 144, 152, 192, 384, 512>>

----------------------------------------------------------------------------
(* Values *)

\* Dimensions of the master images tried: one square, one not.
Dims == {<<512, 512>>, <<800, 600>>}

NoImage == [kind |-> "none", w |-> 0, h |-> 0, from |-> <<0, 0>>, ro |-> FALSE]

\* A file some earlier program left in the output directory.
OldFile(readonly) ==
    [kind |-> "old", w |-> 0, h |-> 0, from |-> <<0, 0>>, ro |-> readonly]

\* A symbolic link whose target lies in a directory that does not exist.
DanglingLink == [kind |-> "dangling", w |-> 0, h |-> 0, from |-> <<0, 0>>, ro |-> FALSE]

\* A file that was opened for writing and not written completely.
PartialFile == [kind |-> "partial", w |-> 0, h |-> 0, from |-> <<0, 0>>, ro |-> FALSE]

EmptyDir == [n \in {} |-> NoImage]

NoEvents == << >>

NoRaise == [exc |-> "none", site |-> "none"]

NoPrev == [status |-> "none", files |-> EmptyDir, src |-> <<0, 0>>]

Range(s) == {s[i] : i \in DOMAIN s}

----------------------------------------------------------------------------
(* Library and operating system calls, by what they do *)

\* os.path.exists(output_dir): true of a directory and of any other file.
PathExists(d) == d # "absent"

\* Faulty variant of MakeDirs: the directory is not created.
MakeDirsNothing(d) == d

\* os.makedirs(output_dir) on a path that does not exist.
MakeDirs(d) == IF d = "absent" THEN "dir" ELSE d

\* f"icon-{size}x{size}.png" inside output_dir: both numbers of the name.
IconName(size) == <<size, size>>

\* Image.open(source_path): the exception it raises, or "ok".
OpenOutcome(src) ==
    CASE src.kind = "missing"    -> "FileNotFoundError"
      [] src.kind = "unreadable" -> "PermissionError"
      [] src.kind = "corrupt"    -> "UnidentifiedImageError"
      [] OTHER                   -> "ok"

\* img.resize((size, size), LANCZOS) decodes the pixel data on first use.
ResizeOutcome(src) == IF src.kind = "truncated" THEN "OSError" ELSE "ok"

\* Faulty variant of Resize: the aspect ratio of the source is kept, as
\* Image.thumbnail would.
ResizeKeepAspect(src, size) ==
    [kind |-> "png", w |-> size, h |-> (size * src.h) \div src.w,
     from |-> <<src.w, src.h>>, ro |-> FALSE]

\* The image img.resize((size, size), ...) returns: size x size, whatever
\* the dimensions of img, its pixels a function of the source and the size.
Resize(src, size) ==
    [kind |-> "png", w |-> size, h |-> size, from |-> <<src.w, src.h>>, ro |-> FALSE]

\* Faulty variant of SaveOutcome: the path is opened for exclusive creation
\* ("xb"), which refuses a file that exists.
SaveOutcomeExclusive(dir, fs, name, k, fullAt) ==
    CASE dir = "absent" -> "FileNotFoundError"
      [] dir = "file"   -> "NotADirectoryError"
      [] name \in DOMAIN fs -> "FileExistsError"
      [] dir = "dir_ro" -> "PermissionError"
      [] k = fullAt -> "OSError"
      [] OTHER -> "ok"

\* resized_img.save(path) opens path for writing ("w+b") and encodes into it:
\* the exception it raises, or "ok".  k is the index of the size being saved.
SaveOutcome(dir, fs, name, k, fullAt) ==
    CASE dir = "absent" -> "FileNotFoundError"
      [] dir = "file"   -> "NotADirectoryError"
      [] name \in DOMAIN fs /\ fs[name].kind = "dangling" -> "FileNotFoundError"
      [] name \in DOMAIN fs /\ fs[name].ro -> "PermissionError"
      [] name \notin DOMAIN fs /\ dir = "dir_ro" -> "PermissionError"
      [] k = fullAt -> "OSError"
      [] OTHER -> "ok"

\* The directory after a save that succeeded: the entry is created or replaced.
WriteFile(fs, name, img) ==
    [n \in DOMAIN fs \cup {name} |-> IF n = name THEN img ELSE fs[n]]

\* Faulty variant of AfterFailedSave: a failed save clears the directory.
AfterFailedSaveCleanup(fs, name, outcome) == {EmptyDir}

\* The directories a failed save can leave.  A save that could not open the
\* path changes nothing.  One that ran out of space had truncated the file:
\* an existing file stays incomplete, a file the save created is removed or
\* stays incomplete.
AfterFailedSave(fs, name, outcome) ==
    IF outcome # "OSError" THEN {fs}
    ELSE IF name \in DOMAIN fs THEN {WriteFile(fs, name, PartialFile)}
    ELSE {fs, WriteFile(fs, name, PartialFile)}

\* Faulty variant of ExceptMatches: except PermissionError.
ExceptMatchesPermission(e) == e = "PermissionError"

\* Faulty variant of ExceptMatches: except OSError, the base class of every
\* exception of this model.
ExceptMatchesOSError(e) == e # "none"

\* except FileNotFoundError: the classes the clause catches.
ExceptMatches(e) == e = "FileNotFoundError"

\* Faulty variant of LoopNext: every second size is skipped.
LoopNextSkip(i) == i + 2

\* for size in sizes: the position after i.
LoopNext(i) == i + 1

\* Faulty variant of OpenAfterWith: img is closed after the loop only, so an
\* exception leaves it open.
OpenAfterWithLeak(e) == e # "none"

\* The with statement's exit: img is closed (imgOpen becomes FALSE) whether
\* the block ended normally (e = "none") or by the exception e.
OpenAfterWith(e) == FALSE

\* The line print(f"... Created: {output_dir}/icon-{size}x{size}.png").
CreatedLine(size) == [kind |-> "created", path |-> output_dir, name |-> IconName(size)]

\* The line print(f"... Error: Could not find {source_path}. ...").
NotFoundLine(path) == [kind |-> "error", path |-> path, name |-> <<0, 0>>]

----------------------------------------------------------------------------
(* Initial states: the file system the script is started on *)

Sources ==
    {[kind |-> k, w |-> 0, h |-> 0] : k \in {"missing", "unreadable", "corrupt"}}
    \cup {[kind |-> "ok", w |-> d[1], h |-> d[2]] : d \in Dims}
    \cup {[kind |-> "truncated", w |-> 800, h |-> 600]}

IconNames == {IconName(sizes[i]) : i \in DOMAIN sizes}

\* Directories holding at most MaxPreexisting icon files of an earlier program.
StaleDirs ==
    {[n \in P |-> OldFile(FALSE)] :
        P \in {Q \in SUBSET IconNames : Cardinality(Q) <= MaxPreexisting}}

\* The entries a save cannot open: a read-only file, a dangling link.
BadEntries == {OldFile(TRUE), DanglingLink}

\* A run ends at the first save that fails, so one failing save per file
\* system is the general case: the device fills up during one save, or one
\* entry cannot be opened, or the directory itself is not writable.
InitialFileSystems ==
    {[dir |-> "dir", fs |-> d, fullAt |-> k] : d \in StaleDirs, k \in 0..Len(sizes)}
    \cup {[dir |-> "dir", fs |-> WriteFile(d, n, e), fullAt |-> 0] :
            d \in StaleDirs, n \in IconNames, e \in BadEntries}
    \cup {[dir |-> "dir_ro", fs |-> d, fullAt |-> 0] : d \in StaleDirs}
    \cup {[dir |-> o, fs |-> EmptyDir, fullAt |-> k] :
            o \in {"absent", "file"}, k \in {0, 1}}

StartOfRun ==
    /\ pc = "module"
    /\ source_path = ""
    /\ imgOpen = FALSE
    /\ idx = 0
    /\ resized_img = NoImage
    /\ exc = "none"
    /\ console = << >>
    /\ raised = NoRaise
    /\ openCount = 0
    /\ events = NoEvents
    /\ written = {}
    /\ outDirAtStart = outDir
    /\ filesAtStart = files

Init ==
    /\ run = 1
    /\ source \in Sources
    /\ \E f \in InitialFileSystems :
        /\ outDir = f.dir
        /\ files = f.fs
        /\ diskFullAt = f.fullAt
    /\ prev = NoPrev
    /\ StartOfRun

----------------------------------------------------------------------------
(* The script, one action per statement *)

\* Lines 11-12: if not os.path.exists(output_dir): os.makedirs(output_dir)
Startup ==
    /\ pc = "module"
    /\ outDir' = IF PathExists(outDir) THEN outDir ELSE MakeDirs(outDir)
    /\ pc' = "main"
    /\ UNCHANGED <<run, source, files, diskFullAt, source_path, imgOpen, idx,
                   resized_img, exc, console, raised, openCount, events, written,
                   outDirAtStart, filesAtStart, prev>>

\* Lines 26-27: generate_icons(source_file)
Call ==
    /\ pc = "main"
    /\ source_path' = source_file
    /\ pc' = "open"
    /\ UNCHANGED <<run, source, outDir, files, diskFullAt, imgOpen, idx,
                   resized_img, exc, console, raised, openCount, events, written,
                   outDirAtStart, filesAtStart, prev>>

\* Line 18: with Image.open(source_path) as img.  An exception of the open
\* is raised inside the try and outside the with.
OpenSource ==
    /\ pc = "open"
    /\ LET o == OpenOutcome(source) IN
        IF o = "ok"
        THEN /\ imgOpen' = TRUE
             /\ openCount' = openCount + 1
             /\ idx' = 1
             /\ pc' = IF Len(sizes) >= 1 THEN "resize" ELSE "with_exit"
             /\ UNCHANGED <<exc, raised>>
        ELSE /\ exc' = o
             /\ raised' = [exc |-> o, site |-> "open"]
             /\ pc' = "except"
             /\ UNCHANGED <<imgOpen, openCount, idx>>
    /\ UNCHANGED <<run, source, outDir, files, diskFullAt, source_path,
                   resized_img, console, events, written,
                   outDirAtStart, filesAtStart, prev>>

\* Line 20: resized_img = img.resize((size, size), Image.Resampling.LANCZOS)
ResizeStep ==
    /\ pc = "resize"
    /\ LET o == ResizeOutcome(source) IN
        IF o = "ok"
        THEN /\ resized_img' = Resize(source, sizes[idx])
             /\ events' = Append(events, [op |-> "resize", size |-> sizes[idx]])
             /\ pc' = "save"
             /\ UNCHANGED <<exc, raised>>
        ELSE /\ exc' = o
             /\ raised' = [exc |-> o, site |-> "resize"]
             /\ pc' = "with_exit"
             /\ UNCHANGED <<resized_img, events>>
    /\ UNCHANGED <<run, source, outDir, files, diskFullAt, source_path, imgOpen,
                   idx, console, openCount, written,
                   outDirAtStart, filesAtStart, prev>>

\* Line 21: resized_img.save(f"{output_dir}/icon-{size}x{size}.png")
SaveStep ==
    /\ pc = "save"
    /\ LET name == IconName(sizes[idx])
           o == SaveOutcome(outDir, files, name, idx, diskFullAt)
       IN
        IF o = "ok"
        THEN /\ files' = WriteFile(files, name, resized_img)
             /\ written' = written \cup {name}
             /\ events' = Append(events, [op |-> "save", size |-> sizes[idx]])
             /\ pc' = "print"
             /\ UNCHANGED <<exc, raised>>
        ELSE /\ files' \in AfterFailedSave(files, name, o)
             /\ written' = IF files' = files THEN written ELSE written \cup {name}
             /\ exc' = o
             /\ raised' = [exc |-> o, site |-> "save"]
             /\ pc' = "with_exit"
             /\ UNCHANGED events
    /\ UNCHANGED <<run, source, outDir, diskFullAt, source_path, imgOpen, idx,
                   resized_img, console, openCount,
                   outDirAtStart, filesAtStart, prev>>

\* Line 22: print(f"... Created: {output_dir}/icon-{size}x{size}.png"), and
\* line 19: the for statement takes the next size or ends the loop.
PrintStep ==
    /\ pc = "print"
    /\ console' = Append(console, CreatedLine(sizes[idx]))
    /\ events' = Append(events, [op |-> "print", size |-> sizes[idx]])
    /\ idx' = LoopNext(idx)
    /\ pc' = IF idx' \in DOMAIN sizes THEN "resize" ELSE "with_exit"
    /\ UNCHANGED <<run, source, outDir, files, diskFullAt, source_path, imgOpen,
                   resized_img, exc, raised, openCount, written,
                   outDirAtStart, filesAtStart, prev>>

\* Line 18: leaving the with block, normally or by an exception, closes img.
WithExit ==
    /\ pc = "with_exit"
    /\ imgOpen' = OpenAfterWith(exc)
    /\ pc' = IF exc = "none" THEN "done" ELSE "except"
    /\ UNCHANGED <<run, source, outDir, files, diskFullAt, source_path, idx,
                   resized_img, exc, console, raised, openCount, events, written,
                   outDirAtStart, filesAtStart, prev>>

\* Lines 23-24: except FileNotFoundError: print(...).  An exception of
\* another class leaves generate_icons and ends the process.
ExceptClause ==
    /\ pc = "except"
    /\ IF ExceptMatches(exc)
       THEN /\ console' = Append(console, NotFoundLine(source_path))
            /\ exc' = "none"
            /\ pc' = "done"
       ELSE /\ pc' = "crashed"
            /\ UNCHANGED <<console, exc>>
    /\ UNCHANGED <<run, source, outDir, files, diskFullAt, source_path, imgOpen,
                   idx, resized_img, raised, openCount, events, written,
                   outDirAtStart, filesAtStart, prev>>

Ended == pc \in {"done", "crashed"}

RunStatus ==
    IF pc = "crashed" THEN "crashed"
    ELSE IF raised.exc # "none" THEN "handled"
    ELSE "ok"

\* The script is started again on the file system the last run left.
Rerun ==
    /\ Ended
    /\ run < MaxRuns
    /\ run' = run + 1
    /\ prev' = [status |-> RunStatus, files |-> files, src |-> <<source.w, source.h>>]
    /\ pc' = "module"
    /\ source_path' = ""
    /\ imgOpen' = FALSE
    /\ idx' = 0
    /\ resized_img' = NoImage
    /\ exc' = "none"
    /\ console' = << >>
    /\ raised' = NoRaise
    /\ openCount' = 0
    /\ events' = NoEvents
    /\ written' = {}
    /\ outDirAtStart' = outDir
    /\ filesAtStart' = files
    /\ UNCHANGED <<source, outDir, files, diskFullAt>>

Next ==
    \/ Startup
    \/ Call
    \/ OpenSource
    \/ ResizeStep
    \/ SaveStep
    \/ PrintStep
    \/ WithExit
    \/ ExceptClause
    \/ Rerun

Spec == Init /\ [][Next]_vars

----------------------------------------------------------------------------
(* The same script while another process may remove the output directory *)

\* rm -r of the output directory, at any moment after the script started it.
RemoveOutputDir ==
    /\ pc \notin {"module", "done", "crashed"}
    /\ outDir \in {"dir", "dir_ro"}
    /\ outDir' = "absent"
    /\ files' = EmptyDir
    /\ UNCHANGED <<pc, run, source, diskFullAt, source_path, imgOpen, idx,
                   resized_img, exc, console, raised, openCount, events, written,
                   outDirAtStart, filesAtStart, prev>>

InitEnv ==
    /\ Init
    /\ source.kind = "ok"
    /\ diskFullAt = 0
    /\ outDir \in {"absent", "dir"}
    /\ \A n \in DOMAIN files : files[n] = OldFile(FALSE)

NextEnv ==
    \/ Next
    \/ RemoveOutputDir

SpecEnv == InitEnv /\ [][NextEnv]_vars

----------------------------------------------------------------------------
(* Properties *)

\* The size list as the specification states it.
SizeList == <<72, 96, 128, 144, 152, 192, 384, 512>>

\* icon-<s>x<s>.png
IconFile(s) == <<s, s>>

\* The icons of the first k sizes.
IconPrefix(k) == {IconFile(SizeList[i]) : i \in 1..k}

\* The run ended without any exception having been raised.
CleanRun == pc = "done" /\ raised = NoRaise

ErrorLines == {i \in DOMAIN console : console[i].kind = "error"}

CreatedLines == {i \in DOMAIN console : console[i].kind = "created"}

\* C1: after a run in which the source opens and no resize or save fails,
\* for every size s of the list the output directory holds icon-<s>x<s>.png
\* with dimensions exactly s x s, whatever the dimensions of the source, and
\* the run has written exactly one file per entry of the list: the eight
\* icons and no other file.
C1_AllIconsSquare ==
    CleanRun =>
        /\ \A i \in DOMAIN SizeList :
            /\ IconFile(SizeList[i]) \in DOMAIN files
            /\ files[IconFile(SizeList[i])].kind = "png"
            /\ files[IconFile(SizeList[i])].w = SizeList[i]
            /\ files[IconFile(SizeList[i])].h = SizeList[i]
        /\ written = IconPrefix(8)
        /\ Cardinality(written) = 8
        /\ Cardinality({i \in DOMAIN events : events[i].op = "save"}) = 8
        /\ DOMAIN files = DOMAIN filesAtStart \cup IconPrefix(8)

\* A clean run on a source that is not square.
C1_Witness == CleanRun /\ source.w # source.h

\* C2: when the source path does not exist, the run prints the diagnostic
\* naming the path it was given and nothing else, writes no file and leaves
\* every file of the output directory unchanged, and ends on the normal exit
\* path: the failure is not propagated.
C2_MissingSource ==
    source.kind = "missing" =>
        /\ files = filesAtStart
        /\ written = {}
        /\ events = << >>
        /\ CreatedLines = {}
        /\ pc # "crashed"
        /\ Ended =>
            /\ pc = "done"
            /\ console = <<[kind |-> "error", path |-> "GenerateIcons/master-icon.png",
                            name |-> <<0, 0>>]>>

\* A run on a missing source has ended, over a directory that holds files.
C2_Witness == Ended /\ source.kind = "missing" /\ DOMAIN files # {}

\* C3: if nothing exists at the output path when the script starts, the
\* directory is created before the source is opened and before any icon is
\* written, and it exists when the run ends, whether the source is found or
\* missing; whenever an icon has been written the directory exists.
C3_DirectoryCreatedFirst ==
    /\ (outDirAtStart = "absent" /\ pc # "module") => outDir = "dir"
    /\ (written # {} \/ pc = "print") => outDir \in {"dir", "dir_ro"}

\* A complete run that started without the output directory.
C3_Witness == outDirAtStart = "absent" /\ pc = "done" /\ Cardinality(written) = 8

\* C4: source-not-found is the only failure caught: after any other failure
\* (an undecodable or unreadable source, a failed resize, a failed save) the
\* run ends by the propagated exception and the source-not-found line is not
\* printed.
C4_OnlySourceNotFoundCaught ==
    (Ended /\ raised.exc # "none" /\ ~(raised.site = "open" /\ source.kind = "missing"))
        => (pc = "crashed" /\ ErrorLines = {})

\* C5 as stated: every source that cannot be opened for reading, a missing
\* one and an unreadable one alike, ends in the printed diagnostic and a
\* normal return.
C5_UnopenableSourceReported ==
    (Ended /\ source.kind \in {"missing", "unreadable"}) =>
        /\ pc = "done"
        /\ ErrorLines # {}

\* C5 amended: a source path that does not exist ends in the printed
\* diagnostic naming the path and a normal return; a source that exists and
\* cannot be read or decoded ends by the propagated exception, with nothing
\* printed.
C5_OnlyMissingSourceReported ==
    Ended =>
        /\ source.kind = "missing" =>
            /\ pc = "done"
            /\ \E i \in DOMAIN console :
                console[i] = [kind |-> "error", path |-> "GenerateIcons/master-icon.png",
                              name |-> <<0, 0>>]
        /\ source.kind \in {"unreadable", "corrupt"} =>
            /\ pc = "crashed"
            /\ console = << >>
            /\ raised.site = "open"

\* A run on an unreadable source has ended.
C5_Witness == Ended /\ source.kind = "unreadable"

\* C6: a run that follows a clean run on the same source ends cleanly too,
\* has overwritten every one of the eight files, and leaves the output
\* directory exactly as the first run left it.
C6_Idempotent ==
    (run >= 2 /\ prev.status = "ok") =>
        /\ pc # "crashed"
        /\ raised = NoRaise
        /\ Ended =>
            /\ files = prev.files
            /\ written = IconPrefix(8)

\* The second of two clean runs has ended.
C6_Witness == run = 2 /\ prev.status = "ok" /\ CleanRun

\* C7: the image is opened at most once per run and is closed on every exit
\* path: it is closed when generate_icons has returned or raised, and when
\* the except clause is reached after a failure part-way through the loop.
C7_ImageReleased ==
    /\ openCount <= 1
    /\ Ended => ~imgOpen
    /\ pc = "except" => ~imgOpen
    /\ imgOpen => openCount = 1

\* A run that opened the image has ended by a failed save of a later size.
C7_Witness == Ended /\ openCount = 1 /\ raised.site = "save" /\ idx >= 2

\* C8: the sizes are processed one at a time in the order of the list: the
\* steps of a run are a prefix of resize 72, save 72, print 72, resize 96,
\* ..., print 512, so each file is written and its notice printed before the
\* next resize begins and no size is processed twice; a file that has been
\* saved is complete on disk.
C8_InListOrder ==
    /\ Len(events) <= 3 * 8
    /\ \A i \in DOMAIN events :
        /\ events[i].size = SizeList[((i - 1) \div 3) + 1]
        /\ events[i].op = <<"resize", "save", "print">>[((i - 1) % 3) + 1]
        /\ events[i].op = "save" =>
            /\ IconFile(events[i].size) \in DOMAIN files
            /\ files[IconFile(events[i].size)].kind = "png"
            /\ files[IconFile(events[i].size)].w = events[i].size
    /\ pc = "resize" => Len(events) % 3 = 0
    /\ Cardinality(CreatedLines) = Cardinality({i \in DOMAIN events : events[i].op = "print"})

\* A run has processed all eight sizes.
C8_Witness == pc = "done" /\ Len(events) = 3 * 8

\* C9: a success line names a file only after the file has been written,
\* exactly once per file; the source-not-found line is printed at most once
\* and only when opening the source failed because the file is missing, and
\* then no success line is printed.
C9_ConsoleMatchesFiles ==
    /\ \A i \in CreatedLines :
        /\ console[i].name \in written
        /\ \A j \in CreatedLines : console[j].name = console[i].name => j = i
    /\ Cardinality(ErrorLines) <= 1
    /\ ErrorLines # {} =>
        /\ raised = [exc |-> "FileNotFoundError", site |-> "open"]
        /\ source.kind = "missing"
        /\ CreatedLines = {}

\* C10: at every point of a run the files written so far are the icons of a
\* prefix of the size list and every other file is as it was when the run
\* started; when a failure stops the run at the k-th size, the files of the
\* first k-1 sizes are on disk as written and no later file has been touched.
C10_PrefixWritten ==
    /\ \E k \in 0..8 : written = IconPrefix(k)
    /\ \A n \in (DOMAIN files \cup DOMAIN filesAtStart) \ written :
        /\ n \in DOMAIN files
        /\ n \in DOMAIN filesAtStart
        /\ files[n] = filesAtStart[n]
    /\ (Ended /\ raised.site \in {"resize", "save"}) =>
        /\ \A i \in 1..(idx - 1) :
            /\ IconFile(SizeList[i]) \in DOMAIN files
            /\ files[IconFile(SizeList[i])].kind = "png"
            /\ files[IconFile(SizeList[i])].w = SizeList[i]
            /\ files[IconFile(SizeList[i])].from = <<source.w, source.h>>
        /\ written \subseteq IconPrefix(idx)
        /\ IconPrefix(idx - 1) \subseteq written

\* A save of the third size or a later one has stopped the run.
C10_Witness == pc = "crashed" /\ raised.site = "save" /\ idx >= 3 /\ DOMAIN filesAtStart # {}

====
